---- MODULE Spec2Model ----
(***************************************************************************)
(* State-machine model of cryodrgn's hierarchical pose search              *)
(* (src/cryodrgn/pose_search.py, class PoseSearch).                        *)
(*                                                                         *)
(* Representation.                                                         *)
(*  - A tensor is a record [shape, data]: data is the row-major flattening *)
(*    (flat index f, 0-based, is data[f+1]).                               *)
(*  - A loss value is a record [n, v] that denotes the real number         *)
(*    unit * n / sqrt(v) when v > 0, where unit is a positive constant of  *)
(*    the loss formulation (1 for mse, 1/2 for msf, sqrt(P*(P-1)) for      *)
(*    cor).  v = 0 denotes the result of a floating-point division by      *)
(*    zero: -inf (n < 0), +inf (n > 0) or NaN (n = 0).                     *)
(*  - Arithmetic is exact: floating-point rounding is not modelled.        *)
(*  - The tilt-pair input of eval_grid/opt_theta_trans is always None and  *)
(*    the latent code z is always None.                                    *)
(***************************************************************************)
EXTENDS Integers, Sequences, FiniteSets, TLC

\* ------------------------------------------------------------------ bounds
\* largest number of elements of a loss tensor handed to keep_matrix alone
KMaxNumel == 4
\* largest niter passed to opt_theta_trans
MaxNiter == 2
\* number of opt_theta_trans calls made on one PoseSearch
MaxCalls == 2

\* ----------------------------------------------------------------- helpers
RECURSIVE Prod(_)
Prod(s) == IF Len(s) = 0 THEN 1 ELSE Head(s) * Prod(Tail(s))

RECURSIVE SumSeq(_)
SumSeq(s) == IF Len(s) = 0 THEN 0 ELSE Head(s) + SumSeq(Tail(s))

RECURSIVE Concat(_)
Concat(ss) == IF Len(ss) = 0 THEN <<>> ELSE Head(ss) \o Concat(Tail(ss))

Abs(x) == IF x < 0 THEN -x ELSE x

\* a sequence given as a function on 1..n, held as an evaluated tuple
Arr(f) == f \o <<>>

Numel(t) == Prod(t.shape)

\* ------------------------------------------------------------- loss values
Fin(x) == [n |-> x, v |-> 1]
NaN == [n |-> 0, v |-> 0]

IsFinite(a) == a.v > 0

\* order class of a loss value: -inf, finite, +inf, NaN (torch.topk with
\* largest=False treats NaN as greater than every number)
LossClass(a) ==
    IF a.v > 0 THEN 1 ELSE IF a.n < 0 THEN 0 ELSE IF a.n > 0 THEN 2 ELSE 3

\* a < b for the denoted numbers n/sqrt(v), compared through signed squares
LossLT(a, b) ==
    IF LossClass(a) # LossClass(b) THEN LossClass(a) < LossClass(b)
    ELSE IF LossClass(a) # 1 THEN FALSE
    ELSE a.n * Abs(a.n) * b.v < b.n * Abs(b.n) * a.v

LossLE(a, b) == ~LossLT(b, a)

\* ------------------------------------------------------------- keep_matrix
\* torch.topk(k, largest=False, sorted=True)[1] on one row: the positions
\* (0-based) of the k smallest entries, in ascending order of value; among
\* equal entries the earlier position comes first
\* position (0-based) in lo..hi, outside taken, of the smallest entry of row,
\* the earliest one among equals; -1 when every position is taken
RECURSIVE ArgMin(_, _, _, _)
ArgMin(row, taken, lo, hi) ==
    IF lo = hi THEN (IF lo \in taken THEN -1 ELSE lo)
    ELSE LET mid == (lo + hi) \div 2
             l == ArgMin(row, taken, lo, mid)
             r == ArgMin(row, taken, mid + 1, hi)
         IN  IF l = -1 THEN r
             ELSE IF r = -1 THEN l
             ELSE IF LossLT(row[r + 1], row[l + 1]) THEN r ELSE l

RECURSIVE TopK(_, _, _)
TopK(row, taken, k) ==
    IF k = 0 THEN <<>>
    ELSE LET i == ArgMin(row, taken, 0, Len(row) - 1)
         IN  <<i>> \o TopK(row, taken \cup {i}, k - 1)

\* keep_idx[d] = flat_idx % shape[d]; flat_idx = flat_idx // shape[d], for d
\* from the last axis down to the first; returns <<keep_idx, final flat_idx>>
RECURSIVE Unflatten(_, _, _, _)
Unflatten(flat, shape, d, acc) ==
    IF d = 0 THEN <<acc, flat>>
    ELSE Unflatten(Arr([j \in 1..Len(flat) |-> flat[j] \div shape[d]]), shape, d - 1,
                   <<Arr([j \in 1..Len(flat) |-> flat[j] % shape[d]])>> \o acc)

\* loss.view(B, -1) and topk(max_poses) succeed
KeepMatrixOK(loss, B, max_poses) ==
    /\ B >= 1
    /\ Numel(loss) % B = 0
    /\ max_poses <= Numel(loss) \div B

\* keep_matrix with the row stride used for the batch offset as a parameter
KeepMatrixWith(loss, B, max_poses, stride) ==
    LET M == Numel(loss) \div B
        top == Arr([b \in 1..B |->
                   TopK(Arr([i \in 1..M |-> loss.data[(b - 1) * M + i]]), {}, max_poses)])
    IN  Unflatten(Concat(Arr([b \in 1..B |->
                      Arr([j \in 1..max_poses |-> top[b][j] + (b - 1) * stride])])),
                  loss.shape, Len(loss.shape), <<>>)[1]

\* faulty variant: the batch offset is not added to the per-row positions
KeepMatrix_noBatchOffset(loss, B, max_poses) ==
    KeepMatrixWith(loss, B, max_poses, 0)

\* keep_matrix: one index array per axis of loss.shape, each of length
\* B * max_poses
KeepMatrix(loss, B, max_poses) ==
    KeepMatrixWith(loss, B, max_poses, Numel(loss) \div B)

\* flat position of an index tuple in a tensor of the given shape
RECURSIVE FlatOf(_, _)
FlatOf(idx, shape) ==
    IF Len(idx) = 0 THEN 0
    ELSE Head(idx) * Prod(Tail(shape)) + FlatOf(Tail(idx), Tail(shape))

Gather(loss, keep, j) ==
    loss.data[FlatOf([d \in 1..Len(loss.shape) |-> keep[d][j]], loss.shape) + 1]

\* ------------------------------------------------------ grid collaborators
\* so3_grid and shift_grid are outside src/; they are modelled from the
\* interface the specification gives them (section 6): a hierarchical grid in
\* which a rotation cell has 8 children and a translation cell 4, scaled down
\* to one S2 cell and two in-plane cells at resolution 1.
S2Count(res) == 4 ^ (res - 1)

S1Count(res) == 2 ^ res

\* so3_grid.get_base_ind: (S2 index, S1 index) of a base SO(3) grid index
So3BaseInd(ind, base) == <<ind \div S1Count(base), ind % S1Count(base)>>

\* shift_grid.get_base_ind: (x, y) of a base shift grid index
ShiftBaseInd(ind, ngrid) == <<ind \div ngrid, ind % ngrid>>

\* a quaternion is the cell it is the canonical orientation of, and a sign
\* (q and -q are the same rotation)
Quat(res, s2, s1, sgn) == [res |-> res, s2 |-> s2, s1 |-> s1, sgn |-> sgn]

\* so3_grid.grid_SO3(base)[ind]
So3BaseQuat(ind, base) ==
    Quat(base, So3BaseInd(ind, base)[1], So3BaseInd(ind, base)[2], 0)

\* lie_tools.quaternions_to_SO3 of one quaternion
QuatToSO3(q) == [res |-> q.res, s2 |-> q.s2, s1 |-> q.s1]

\* shift vector of a translation cell, in quarter turns of phase per
\* frequency step
ShiftVec(x, y, res) == <<x + res, y>>

\* so3_grid.get_neighbor(quat, s2i, s1i, res): 8 child quaternions and their
\* index pairs.  The children depend on the quaternion passed (here through
\* its sign).  mode # "ok" is a collaborator that breaks its interface.
So3GetNeighbor(mode, quat, s2i, s1i, res) ==
    LET n == IF mode \in {"q7", "q7w3"} THEN 7
             ELSE IF mode = "ragged" /\ s1i % 2 = 1 THEN 7 ELSE 8
        child(j) == <<4 * s2i + ((j - 1) \div 2), 2 * s1i + ((j - 1) % 2)>>
    IN  [quat |-> Arr([j \in 1..n |-> Quat(res + 1, child(j)[1], child(j)[2], quat.sgn)]),
         qw   |-> IF mode \in {"q7w3"} THEN 3 ELSE 4,
         ind  |-> Arr([j \in 1..n |-> child(j)]),
         iw   |-> IF mode = "i3" THEN 3 ELSE 2]

\* shift_grid.get_neighbor(x, y, res, extent, ngrid): 4 child shifts and
\* their index pairs
ShiftGetNeighbor(mode, x, y, res) ==
    LET n == IF mode = "t3" THEN 3 ELSE 4
        child(j) == <<2 * x + ((j - 1) \div 2), 2 * y + ((j - 1) % 2)>>
    IN  [trans |-> Arr([j \in 1..n |-> ShiftVec(child(j)[1], child(j)[2], res + 2)]),
         tw    |-> IF mode = "tw3" THEN 3 ELSE 2,
         ind   |-> Arr([j \in 1..n |-> child(j)]),
         iw    |-> 2]

\* ------------------------------------------------------------ pixel lattice
\* The lattice is outside src/: a 3 x 3 grid whose circular mask holds the
\* centre and its four axis neighbours, in row-major order.  Coordinates are
\* (x, y) in units of half the lattice extent.
Coords == << <<0, -1>>, <<-1, 0>>, <<0, 0>>, <<1, 0>>, <<0, 1>> >>

Npix == Len(Coords)

Cos4(k) == <<1, 0, -1, 0>>[(k % 4) + 1]

Sin4(k) == <<0, 1, 0, -1>>[(k % 4) + 1]

Dot(a, b) == SumSeq(Arr([p \in 1..Len(a) |-> a[p] * b[p]]))

\* lattice.translate_ht on one masked image and one shift:
\* H'(k) = cos(2 pi k.t) H(k) + sin(2 pi k.t) H(-k), the index of -k being the
\* reversed index of k
TranslateHt(img, t) ==
    Arr([p \in 1..Npix |->
        LET th == Coords[p][1] * t[1] + Coords[p][2] * t[2]
        IN  Cos4(th) * img[p] + Sin4(th) * img[Npix + 1 - p]])

\* translate_images: B x T x Npix
TranslateImages(images, shifts) ==
    Arr([b \in 1..Len(images) |->
        Arr([t \in 1..Len(shifts) |-> TranslateHt(images[b], shifts[t])])])

\* the render model (outside src/): predicted intensities of one rotation.
\* seed 0 is a model that predicts the same value at every pixel.
Render(seed, rot) ==
    Arr([p \in 1..Npix |->
        IF seed = 0 THEN 1
        ELSE (seed * p * p + (p + 1) * rot.s2 + p * rot.s1 + rot.res) % 3])

\* ------------------------------------------------------------ rotate_images
\* value of the zero-filled D x D canvas at lattice position (x, y)
Canvas(img, x, y) ==
    IF \E p \in 1..Npix : Coords[p] = <<x, y>>
    THEN img[CHOOSE p \in 1..Npix : Coords[p] = <<x, y>>]
    ELSE 0

\* interpolate(img, coords) at one coordinate whose row and column are whole
\* numbers: floor = ceil, so the remainder cr is 0 and its complement ci is 1
Interpolate(img, x, y) ==
    LET cr == 0
        ci == 1 - cr
    IN  Canvas(img, x, y) * ci * ci + Canvas(img, x, y) * ci * cr
          + Canvas(img, x, y) * cr * ci + Canvas(img, x, y) * cr * cr

\* Npix * (Npix - 1) * variance of a pixel vector
Ssd(y) == Npix * Dot(y, y) - SumSeq(y) * SumSeq(y)

\* interpolate(full_images, interp_coords) for the lattice turned by k
\* quarter turns
Rotated(y, k) ==
    Arr([p \in 1..Npix |->
        Interpolate(y, Coords[p][1] * Cos4(k) + Coords[p][2] * Sin4(k),
                       Coords[p][2] * Cos4(k) - Coords[p][1] * Sin4(k))])

\* line 174: the interpolated image times std(original) / std(interpolated),
\* as [px, ok].  A quarter turn permutes the pixels of the lattice, so the
\* ratio is 1 whenever it is defined; ok = FALSE when the standard deviation
\* divided by is zero (every pixel is then NaN)
Rescaled(interp) == [px |-> interp, ok |-> Ssd(interp) # 0]

\* one masked image rotated in plane by k quarter turns
RotateOne(y, k) == Rescaled(Rotated(y, k))

\* rotate_images on N x NQ rows: N x (NQ * len(angles)) rows, the angle index
\* running fastest
RotateImages(yhat, ks) ==
    Arr([n \in 1..Len(yhat) |->
        Arr([c \in 1..(Len(yhat[n]) * Len(ks)) |->
            RotateOne(yhat[n][((c - 1) \div Len(ks)) + 1], ks[((c - 1) % Len(ks)) + 1])])])

\* ---------------------------------------------------------------- eval_grid
LossFns == {"mse", "msf", "cor"}

\* sum of squared differences
MseErr(o, y) == Fin(SumSeq(Arr([p \in 1..Npix |-> (o[p] - y[p]) * (o[p] - y[p])])))

\* faulty variant of the msf formulation: the squared norm is not halved
MsfErr_normNotHalved(o, y) == Fin(2 * (-Dot(o, y) + Dot(y, y)))

\* -<o, y> + |y|^2 / 2, held in units of 1/2
MsfErr(o, y) == Fin(-2 * Dot(o, y) + Dot(y, y))

\* -<o, y> / std(y), held in units of sqrt(Npix * (Npix - 1)); a zero
\* standard deviation gives the IEEE quotient (v = 0)
CorErr(o, y) == [n |-> -Dot(o, y), v |-> Ssd(y)]

\* compute_err for one (image, translation, orientation) entry
ComputeErr(loss_fn, o, yrow) ==
    IF ~yrow.ok THEN NaN
    ELSE IF loss_fn = "mse" THEN MseErr(o, yrow.px)
    ELSE IF loss_fn = "msf" THEN MsfErr(o, yrow.px)
    ELSE CorErr(o, yrow.px)

\* faulty variant: an unknown loss_fn falls back to mse
EvalGridOK_fallback(loss_fn) == TRUE

\* compute_err does not raise NotImplementedError
EvalGridOK(loss_fn) == loss_fn \in LossFns

\* self.model(coords @ rot) of N x NQ rotations
RenderAll(seed, rots) ==
    Arr([n \in 1..Len(rots) |-> Arr([q \in 1..Len(rots[n]) |->
        Render(seed, rots[n][q])])])

\* lines 88-93: rot = rand_inplane_rot @ rot, for the angle at position ra
InPlane(rots, ra) ==
    Arr([n \in 1..Len(rots) |-> Arr([q \in 1..Len(rots[n]) |->
        [rots[n][q] EXCEPT !.s1 = ra - 1]])])

\* predictions that rotate_images has not touched
Plain(y) ==
    Arr([n \in 1..Len(y) |-> Arr([q \in 1..Len(y[n]) |->
        [px |-> y[n][q], ok |-> TRUE]])])

\* lines 88-103: y_hat; ks are the in-plane angles in quarter turns (<<>> for
\* None) and ra the position of the angle np.random.randint draws
Predict(seed, rots, ks, ra) ==
    IF ks = <<>> THEN Plain(RenderAll(seed, rots))
    ELSE RotateImages(RenderAll(seed, InPlane(rots, ra)),
                      Arr([a \in 1..Len(ks) |-> ks[a] - ks[ra]]))

\* lines 104-124: err, B x T x Q; yhat has one row (base grid) or B rows
LossTensor(loss_fn, images, yhat) ==
    LET B == Len(images)
        T == Len(images[1])
        Q == Len(yhat[1])
    IN  [shape |-> <<B, T, Q>>,
         data |-> Arr([f \in 1..(B * T * Q) |->
                      ComputeErr(loss_fn, images[((f - 1) \div (T * Q)) + 1]
                                                [(((f - 1) \div Q) % T) + 1],
                                 yhat[IF Len(yhat) = 1 THEN 1
                                      ELSE ((f - 1) \div (T * Q)) + 1]
                                     [((f - 1) % Q) + 1])])]

\* eval_grid: rots is N x NQ rotations (N = 1 or N = B), images is
\* B x T x Npix
EvalGrid(loss_fn, seed, images, rots, ks, ra) ==
    LossTensor(loss_fn, images, Predict(seed, rots, ks, ra))


\* ------------------------------------------------------------------- state
VARIABLES
    cfg,            \* constructor arguments of the PoseSearch, and the model
    so3_cache,      \* self._so3_neighbor_cache: key -> collaborator result
    shift_cache,    \* self._shift_neighbor_cache
    grid_log,       \* history: per table and key, the collaborator's calls
    grid_mode,      \* whether the grid collaborator keeps its interface
    call,           \* the last call made on the object: its name and, for
                    \* an operation other than opt_theta_trans, its arguments
    ret,            \* what that call returned (opt_theta_trans: see result)
    pc,             \* position of opt_theta_trans: idle, loop, done, failed
    err,            \* the exception that ended the last call, or "none"
    args,           \* arguments of the running opt_theta_trans call
    iter_,          \* loop variable of opt_theta_trans
    keepB, keepT, keepQ,
    keepBN,         \* first index array of the last keep_matrix result
    quat, q_ind, t_ind, rot, trans,
    loss,           \* last loss tensor, or Unbound
    rowImg,         \* history: image each row of loss was scored against
    Ls,             \* history: radii passed to eval_grid in this call
    new_init_poses,
    first,          \* history: keepB, keepT, keepQ after the first pruning
    result,         \* what the last completed call returned
    lastRet,        \* history: result and first pruning of the last
                    \* completed call
    ops             \* number of calls made on the object

vars == <<cfg, so3_cache, shift_cache, grid_log, grid_mode, call, ret, pc, err,
          args, iter_, keepB, keepT, keepQ, keepBN, quat, q_ind, t_ind, rot, trans,
          loss, rowImg, Ls, new_init_poses, first, result, lastRet, ops>>

\* a local variable that has not been assigned (a tensor, a sequence)
Unbound == [shape |-> <<>>, data |-> <<>>, unbound |-> TRUE]
UnboundSeq == <<"unbound">>
\* Python's None
None == [none |-> TRUE]
EmptyMap == [k \in {} |-> 0]

\* -------------------------------------------------------- neighbor caches
Mem(so3, shift, log) == [so3 |-> so3, shift |-> shift, log |-> log]

\* history entry of one collaborator invocation
Logged(log, key, val) ==
    IF key \in DOMAIN log
    THEN [log EXCEPT ![key] = [count |-> @.count + 1, first |-> @.first]]
    ELSE log @@ (key :> [count |-> 1, first |-> val])

\* faulty variant: the memo table is written on every call, hit or miss
GetNeighborSo3_alwaysStore(mode, m, q, s2i, s1i, res) ==
    LET key == <<s2i, s1i, res>>
        val == So3GetNeighbor(mode, q, s2i, s1i, res)
    IN  [m EXCEPT !.so3 = (key :> val) @@ m.so3,
                  !.log = [@ EXCEPT !.so3 = Logged(@, key, val)]]

\* get_neighbor_so3: the memory after the call; the value returned is
\* so3[<<s2i, s1i, res>>] of that memory
GetNeighborSo3(mode, m, q, s2i, s1i, res) ==
    LET key == <<s2i, s1i, res>>
        val == So3GetNeighbor(mode, q, s2i, s1i, res)
    IN  IF key \notin DOMAIN m.so3
        THEN [m EXCEPT !.so3 = @ @@ (key :> val),
                       !.log = [@ EXCEPT !.so3 = Logged(@, key, val)]]
        ELSE m

\* get_neighbor_shift; the collaborator is asked at resolution res - 1
GetNeighborShift(mode, m, x, y, res) ==
    LET key == <<x, y, res>>
        val == ShiftGetNeighbor(mode, x, y, res - 1)
    IN  IF key \notin DOMAIN m.shift
        THEN [m EXCEPT !.shift = @ @@ (key :> val),
                       !.log = [@ EXCEPT !.shift = Logged(@, key, val)]]
        ELSE m

\* ---------------------------------------------------------------- subdivide
\* memory after get_neighbor_so3 for candidates 1..i, in order
RECURSIVE So3All(_, _, _, _, _, _)
So3All(mode, m, qs, qi, res, i) ==
    IF i = 0 THEN m
    ELSE GetNeighborSo3(mode, So3All(mode, m, qs, qi, res, i - 1),
                        qs[i], qi[i][1], qi[i][2], res)

RECURSIVE ShiftAll(_, _, _, _, _)
ShiftAll(mode, m, ti, res, i) ==
    IF i = 0 THEN m
    ELSE GetNeighborShift(mode, ShiftAll(mode, m, ti, res, i - 1),
                          ti[i][1], ti[i][2], res)

\* a call that ended with no array to return
Ended(status, m) ==
    [status |-> status, mem |-> m, quat |-> <<>>, q_ind |-> <<>>, t_ind |-> <<>>,
     rot |-> <<>>, trans |-> <<>>]

\* lines 216-218: the assertions on the arguments; an array is [rows, w],
\* its rows and the length of each row
InputShapesOK(qa, qia, tia) ==
    /\ qa.w = 4
    /\ Len(qia.rows) = Len(qa.rows) /\ qia.w = 2
    /\ Len(tia.rows) = Len(qa.rows) /\ tia.w = 2

\* faulty variant: the assertions on the results are dropped
OutputShapesOK_unchecked(N, qs, qis, tis, nrot, ntrans) == TRUE

\* lines 231-235: the assertions on the results; qs, qis and tis are the
\* shapes of quat, q_ind and t_ind
OutputShapesOK(N, qs, qis, tis, nrot, ntrans) ==
    /\ qs = <<N, 8, 4>>
    /\ qis = <<N, 8, 2>>
    /\ tis = <<N, 4, 2>>
    /\ nrot = N * 8
    /\ ntrans = N * 4

\* the cached results of the keys <<ind[i][1], ind[i][2], res>>, in order
Lookup(table, ind, res) ==
    Arr([i \in 1..Len(ind) |-> table[<<ind[i][1], ind[i][2], res>>]])

\* lines 227-237, given the rotation neighbors nb and the translation
\* neighbors sb; m2 is the memory after all lookups
SubdivideShift(nb, m2, sb) ==
    LET N == Len(nb)
        nq == Len(nb[1].quat)
        nt == Len(sb[1].trans)
        tw == sb[1].tw
    IN  IF \E i \in 1..N : Len(sb[i].trans) # nt \/ sb[i].tw # tw
                           \/ sb[i].iw # sb[1].iw
        THEN Ended("ArrayError", m2)
        ELSE IF (N * nt * tw) % 2 # 0 THEN Ended("ValueError", m2)
        ELSE IF ~OutputShapesOK(N, <<N, nq, nb[1].qw>>, <<N, nq, nb[1].iw>>,
                                <<N, nt, sb[1].iw>>, (N * nq * nb[1].qw) \div 4,
                                (N * nt * tw) \div 2)
        THEN Ended("AssertionError", m2)
        ELSE [status |-> "ok", mem |-> m2,
              quat  |-> Arr([i \in 1..N |-> nb[i].quat]),
              q_ind |-> Arr([i \in 1..N |-> nb[i].ind]),
              t_ind |-> Arr([i \in 1..N |-> sb[i].ind]),
              rot   |-> Concat(Arr([i \in 1..N |->
                            Arr([j \in 1..nq |-> QuatToSO3(nb[i].quat[j])])])),
              trans |-> Concat(Arr([i \in 1..N |-> sb[i].trans]))]

\* the memory after the translation lookups, and what they returned
SubdivideShifts(nb, m2, tia, cur_res) ==
    SubdivideShift(nb, m2, Lookup(m2.shift, tia.rows, cur_res))

\* lines 222-229, given the rotation neighbors nb; m1 is the memory after
\* the rotation lookups
SubdivideRot(mode, m1, nb, tia, cur_res) ==
    LET N == Len(nb)
        nq == Len(nb[1].quat)
        qw == nb[1].qw
    IN  \* np.array of the per-candidate results: one shape for all, or ragged
        IF \E i \in 1..N : Len(nb[i].quat) # nq \/ nb[i].qw # qw
                           \/ nb[i].iw # nb[1].iw
        THEN Ended("ArrayError", m1)
        \* view(-1, 4)
        ELSE IF (N * nq * qw) % 4 # 0 THEN Ended("RuntimeError", m1)
        ELSE SubdivideShifts(nb, ShiftAll(mode, m1, tia.rows, cur_res, N),
                             tia, cur_res)

\* the memory after the rotation lookups, and what they returned
SubdivideRots(mode, m1, qia, tia, cur_res) ==
    SubdivideRot(mode, m1, Lookup(m1.so3, qia.rows, cur_res), tia, cur_res)

\* subdivide(quat, q_ind, t_ind, cur_res).  The result carries the exception
\* that ended the call, or "ok" and the five arrays returned.  "ArrayError"
\* is the failure to build one array from results of unequal shapes: numpy's
\* ValueError, or the TypeError of torch.from_numpy on the object array that
\* older numpy versions build instead.
Subdivide(mode, m, qa, qia, tia, cur_res) ==
    IF ~InputShapesOK(qa, qia, tia) THEN Ended("AssertionError", m)
    ELSE IF Len(qa.rows) = 0
    \* np.array([]) has shape (0,): view(-1, 4) and reshape(-1, 2) accept
    \* it, the assertion on len(quat.shape) does not
    THEN IF OutputShapesOK(0, <<0>>, <<0>>, <<0>>, 0, 0)
         THEN Ended("ok", m)
         ELSE Ended("AssertionError", m)
    ELSE SubdivideRots(mode, So3All(mode, m, qa.rows, qia.rows, cur_res, Len(qa.rows)),
                       qia, tia, cur_res)

\* -------------------------------------------------------------------- getL
\* faulty variant: the radius is not capped
GetL_uncapped(Lmin, Lmax, it) == Lmin * 2 ^ it

GetL(Lmin, Lmax, it) ==
    IF Lmin * 2 ^ it <= Lmax THEN Lmin * 2 ^ it ELSE Lmax


\* ----------------------------------------------------------- opt_theta_trans
\* side of the base shift grid: t_ngrid * 2^(base_healpy - 1)
BaseSide(c) == c.t_ngrid * 2 ^ (c.base_healpy - 1)

\* self.base_shifts[T]
BaseShift(c, T) ==
    ShiftVec(ShiftBaseInd(T, BaseSide(c))[1], ShiftBaseInd(T, BaseSide(c))[2],
             c.base_healpy)

\* self.base_inplane, in quarter turns (the common half-step offset of the
\* grid cancels in the differences rotate_images is given)
BaseInplane(c) ==
    Arr([a \in 1..S1Count(c.base_healpy) |-> (a - 1) * (4 \div S1Count(c.base_healpy))])

\* faulty variant: the result of torch.cat is viewed as B x nkeptposes x 2 directly
NewInitPoses_noPermute(kT, kQ, B, nk) ==
    [shape |-> <<B, nk, 2>>, data |-> kT \o kQ]

\* torch.cat((keepT, keepQ)).view(2, B, nkeptposes).permute(1, 2, 0)
NewInitPoses(kT, kQ, B, nk) ==
    [shape |-> <<B, nk, 2>>,
     data |-> Arr([f \in 1..(2 * B * nk) |->
                  LET c == (f - 1) % 2
                      j == ((f - 1) \div 2) % nk
                      b == (f - 1) \div (2 * nk)
                  IN  (kT \o kQ)[c * B * nk + b * nk + j + 1]])]

\* init_poses.reshape(-1, 2).t(): <<keepT, keepQ>>
UnpackInitPoses(ip) ==
    <<Arr([r \in 1..(Numel(ip) \div 2) |-> ip.data[2 * (r - 1) + 1]]),
      Arr([r \in 1..(Numel(ip) \div 2) |-> ip.data[2 * (r - 1) + 2]])>>

\* x.unsqueeze(1).repeat(1, n).view(-1): each element n times
RepeatEach(x, n) == Arr([i \in 1..(Len(x) * n) |-> x[((i - 1) \div n) + 1]])

\* faulty variant: the flat batch-candidate index is kept as the batch index
BatchOf_notRescaled(kBN, B, nrows) == kBN

\* keepB = keepBN * B // loss.shape[0]
BatchOf(kBN, B, nrows) == Arr([j \in 1..Len(kBN) |-> (kBN[j] * B) \div nrows])

\* lines 282-290: the loss of every image against the whole base grid
BaseLoss(loss_fn, conf, imgs, ra) ==
    LET bh == conf.base_healpy
        nT == BaseSide(conf) * BaseSide(conf)
    IN  EvalGrid(loss_fn, conf.seed,
                 TranslateImages(imgs, Arr([T \in 1..nT |-> BaseShift(conf, T - 1)])),
                 <<Arr([q \in 1..S2Count(bh) |-> [res |-> bh, s2 |-> q - 1, s1 |-> 0]])>>,
                 BaseInplane(conf), ra)

\* lines 315-322: the loss of every kept candidate's children, each row
\* against the image keepB names
IterLoss(loss_fn, conf, imgs, keepB4, tr, ro) ==
    LET N == Len(keepB4) \div 4
    IN  EvalGrid(loss_fn, conf.seed,
                 Arr([r \in 1..N |-> Arr([t \in 1..4 |->
                     TranslateHt(imgs[keepB4[4 * (r - 1) + t] + 1], tr[4 * (r - 1) + t])])]),
                 Arr([r \in 1..N |-> Arr([j \in 1..8 |-> ro[8 * (r - 1) + j]])]),
                 <<>>, 1)

\* the variables a call of opt_theta_trans can change, as one record
Cur ==
    [pc |-> pc, err |-> err, iter_ |-> iter_, keepB |-> keepB, keepT |-> keepT,
     keepQ |-> keepQ, keepBN |-> keepBN, quat |-> quat, q_ind |-> q_ind,
     t_ind |-> t_ind, rot |-> rot, trans |-> trans, loss |-> loss,
     rowImg |-> rowImg, Ls |-> Ls, new_init_poses |-> new_init_poses,
     first |-> first, result |-> result, lastRet |-> lastRet,
     so3_cache |-> so3_cache, shift_cache |-> shift_cache, grid_log |-> grid_log]

Becomes(r) ==
    /\ pc' = r.pc /\ err' = r.err /\ iter_' = r.iter_
    /\ keepB' = r.keepB /\ keepT' = r.keepT /\ keepQ' = r.keepQ
    /\ keepBN' = r.keepBN
    /\ quat' = r.quat /\ q_ind' = r.q_ind /\ t_ind' = r.t_ind
    /\ rot' = r.rot /\ trans' = r.trans
    /\ loss' = r.loss /\ rowImg' = r.rowImg /\ Ls' = r.Ls
    /\ new_init_poses' = r.new_init_poses /\ first' = r.first
    /\ result' = r.result /\ lastRet' = r.lastRet
    /\ so3_cache' = r.so3_cache /\ shift_cache' = r.shift_cache
    /\ grid_log' = r.grid_log

\* the call ends with exception e
Raise(c, e) == [c EXCEPT !.pc = "failed", !.err = e]

\* lines 291-302: the candidate set after the first pruning or the warm start
Setup(c, conf, B, kB, kT, kQ) ==
    [c EXCEPT !.keepB = kB, !.keepT = kT, !.keepQ = kQ,
              !.new_init_poses = NewInitPoses(kT, kQ, B, conf.nkeptposes),
              !.first = [keepB |-> kB, keepT |-> kT, keepQ |-> kQ],
              !.quat = Arr([r \in 1..Len(kQ) |-> So3BaseQuat(kQ[r], conf.base_healpy)]),
              !.q_ind = Arr([r \in 1..Len(kQ) |-> So3BaseInd(kQ[r], conf.base_healpy)]),
              !.trans = Arr([r \in 1..Len(kT) |-> BaseShift(conf, kT[r])]),
              !.t_ind = Arr([r \in 1..Len(kT) |-> ShiftBaseInd(kT[r], BaseSide(conf))]),
              !.rot = UnboundSeq,
              !.iter_ = conf.base_healpy,
              !.pc = "loop",
              !.err = "none"]

\* a call begins: no local variable is bound; ls are the radii used so far
Fresh(c, ls) ==
    [c EXCEPT !.loss = Unbound, !.rot = UnboundSeq, !.Ls = ls, !.rowImg = <<>>]

\* a loss tensor has been computed; rows[r] is the image row r was scored
\* against
Scored(c, lo, rows) == [c EXCEPT !.loss = lo, !.rowImg = rows]

\* lines 291, 297-302, given the result of keep_matrix
StartKept(c, conf, B, keep) ==
    Setup([c EXCEPT !.keepBN = keep[1]], conf, B, keep[1], keep[2], keep[3])

\* line 291, given the loss of the base grid
StartPrune(c, conf, B, lo) ==
    IF ~KeepMatrixOK(lo, B, conf.nkeptposes)
    THEN Raise(Scored(c, lo, Arr([b \in 1..B |-> b - 1])), "RuntimeError")
    ELSE StartKept(Scored(c, lo, Arr([b \in 1..B |-> b - 1])), conf, B,
                   KeepMatrix(lo, B, conf.nkeptposes))

\* lines 293-302, given keepB and <<keepT, keepQ>>
StartWarm(c, conf, B, kB, kTQ) ==
    Setup([c EXCEPT !.keepBN = kB], conf, B, kB, kTQ[1], kTQ[2])

\* lines 263-303: the call up to the loop; init is None or the warm-start
\* set, ra the position of the in-plane angle the base evaluation draws
StartOf(c, conf, init, imgs, ra) ==
    IF init = None
    THEN IF ~EvalGridOK(conf.loss_fn)
         THEN Raise(Fresh(c, <<GetL(conf.Lmin, conf.Lmax, conf.base_healpy - 1)>>),
                    "NotImplementedError")
         ELSE StartPrune(Fresh(c, <<GetL(conf.Lmin, conf.Lmax, conf.base_healpy - 1)>>),
                         conf, Len(imgs), BaseLoss(conf.loss_fn, conf, imgs, ra))
    ELSE StartWarm(Fresh(c, <<>>), conf, Len(imgs),
                   RepeatEach(Arr([b \in 1..Len(imgs) |-> b - 1]), conf.nkeptposes),
                   UnpackInitPoses(init))

\* lines 311-313: the children replace the candidates; the caches keep what
\* the lookups stored
Subdivided(c, conf, sub) ==
    [c EXCEPT !.so3_cache = sub.mem.so3, !.shift_cache = sub.mem.shift,
              !.grid_log = sub.mem.log,
              !.quat = sub.quat, !.q_ind = sub.q_ind, !.t_ind = sub.t_ind,
              !.rot = sub.rot, !.trans = sub.trans,
              !.Ls = Append(c.Ls, GetL(conf.Lmin, conf.Lmax, c.iter_))]

\* lines 329-333, given the result of keep_matrix on a loss of nrows rows
LoopKept(c, B, sub, nrows, keep) ==
    [c EXCEPT
       !.keepBN = keep[1], !.keepT = keep[2], !.keepQ = keep[3],
       !.keepB = BatchOf(keep[1], B, nrows),
       !.quat = Arr([j \in 1..Len(keep[1]) |-> sub.quat[keep[1][j] + 1][keep[3][j] + 1]]),
       !.q_ind = Arr([j \in 1..Len(keep[1]) |-> sub.q_ind[keep[1][j] + 1][keep[3][j] + 1]]),
       !.t_ind = Arr([j \in 1..Len(keep[1]) |-> sub.t_ind[keep[1][j] + 1][keep[2][j] + 1]]),
       !.iter_ = c.iter_ + 1]

\* line 328, given the loss of the children
LoopPrune(c, conf, B, sub, rows, lo) ==
    IF ~KeepMatrixOK(lo, B, conf.nkeptposes)
    THEN Raise(Scored(c, lo, rows), "RuntimeError")
    ELSE LoopKept(Scored(c, lo, rows), B, sub, lo.shape[1],
                  KeepMatrix(lo, B, conf.nkeptposes))

\* lines 312-333, given keepB4 and the result of subdivide
LoopSub(c, conf, a, keepB4, sub) ==
    IF sub.status # "ok"
    THEN Raise([c EXCEPT !.so3_cache = sub.mem.so3, !.shift_cache = sub.mem.shift,
                         !.grid_log = sub.mem.log], sub.status)
    ELSE IF \E i \in 1..Len(keepB4) : keepB4[i] >= Len(a.images)
    THEN Raise([c EXCEPT !.so3_cache = sub.mem.so3, !.shift_cache = sub.mem.shift,
                         !.grid_log = sub.mem.log], "IndexError")
    ELSE IF ~EvalGridOK(conf.loss_fn)
    THEN Raise(Subdivided(c, conf, sub), "NotImplementedError")
    ELSE LoopPrune(Subdivided(c, conf, sub), conf, Len(a.images), sub,
                   Arr([r \in 1..Len(c.keepB) |-> keepB4[4 * (r - 1) + 1]]),
                   IterLoss(conf.loss_fn, conf, a.images, keepB4, sub.trans, sub.rot))

\* lines 304-333: one iteration of the loop
LoopOf(c, conf, mode, a) ==
    LoopSub(c, conf, a, RepeatEach(c.keepB, 4),
            Subdivide(mode, Mem(c.so3_cache, c.shift_cache, c.grid_log),
                      [rows |-> c.quat, w |-> 4], [rows |-> c.q_ind, w |-> 2],
                      [rows |-> c.t_ind, w |-> 2], c.iter_))

\* line 344: the call returns res
Returned(c, res) ==
    [c EXCEPT !.pc = "done", !.result = res,
              !.lastRet = [value |-> res, first |-> c.first]]

\* lines 337-344, given the result of keep_matrix(loss, B, 1)
FinishBest(c, conf, a, best) ==
    IF a.niter # 0 /\ c.rot = UnboundSeq THEN Raise(c, "UnboundLocalError")
    ELSE Returned(c,
           [rot |-> Arr([b \in 1..Len(a.images) |->
                       IF a.niter = 0
                       THEN QuatToSO3(So3BaseQuat(best[3][b], conf.base_healpy))
                       ELSE c.rot[8 * best[1][b] + best[3][b] + 1]]),
            trans |-> Arr([b \in 1..Len(a.images) |->
                       IF a.niter = 0
                       THEN BaseShift(conf, best[2][b])
                       ELSE c.trans[4 * best[1][b] + best[2][b] + 1]]),
            new_init_poses |-> c.new_init_poses])

\* lines 335-344: the best pose of every image, and the return
FinishOf(c, conf, a) ==
    IF c.loss = Unbound THEN Raise(c, "UnboundLocalError")
    ELSE FinishBest(c, conf, a, KeepMatrix(c.loss, Len(a.images), 1))

\* a warm-start set that did not come from this object: candidate j of
\* every image is the pair (j, j)
GivenPoses(conf, B) ==
    [shape |-> <<B, conf.nkeptposes, 2>>,
     data |-> Arr([f \in 1..(2 * B * conf.nkeptposes) |->
                  ((f - 1) \div 2) % conf.nkeptposes])]

\* no call is running on the object
Idle == pc \in {"idle", "done", "failed"}

\* a call of opt_theta_trans starts: niter = nit; init_poses is None
\* (warm = "none"), the set the last completed call returned ("last") or a
\* set built by the caller ("given")
Start(nit, warm, imgs, ra) ==
    /\ Idle
    /\ ops < MaxCalls
    /\ warm = "last" => lastRet # None
    /\ warm # "none" => ra = 1
    /\ ops' = ops + 1
    /\ \E a \in {[niter |-> nit, images |-> imgs, warm |-> warm,
                  init_poses |-> IF warm = "none" THEN None
                                 ELSE IF warm = "last"
                                      THEN lastRet.value.new_init_poses
                                      ELSE GivenPoses(cfg, Len(imgs))]} :
          /\ args' = a
          /\ \E r \in {StartOf(Cur, cfg, a.init_poses, imgs, ra)} : Becomes(r)
    /\ call' = [op |-> "opt_theta_trans"]
    /\ ret' = None
    /\ UNCHANGED <<cfg, grid_mode>>

LoopStep ==
    /\ pc = "loop"
    /\ iter_ <= args.niter
    /\ \E r \in {LoopOf(Cur, cfg, grid_mode, args)} : Becomes(r)
    /\ UNCHANGED <<cfg, grid_mode, call, ret, args, ops>>

Finish ==
    /\ pc = "loop"
    /\ iter_ > args.niter
    /\ \E r \in {FinishOf(Cur, cfg, args)} : Becomes(r)
    /\ UNCHANGED <<cfg, grid_mode, call, ret, args, ops>>

\* ------------------------------------------------- calls of other operations
\* what a running or finished opt_theta_trans call has assigned
driverVars == <<pc, err, args, iter_, keepB, keepT, keepQ, keepBN, quat, q_ind,
                t_ind, rot, trans, loss, rowImg, Ls, new_init_poses, first,
                result, lastRet>>

\* keep_matrix(loss, B, max_poses) called on its own, on the arguments held
\* in call
KeepMatrixCall ==
    /\ call.op = "keep_matrix"
    /\ ret = None
    /\ ret' = IF KeepMatrixOK(call.loss, call.B, call.max_poses)
              THEN [status |-> "ok",
                    value |-> KeepMatrix(call.loss, call.B, call.max_poses)]
              ELSE [status |-> "RuntimeError", value |-> <<>>]
    /\ UNCHANGED <<cfg, so3_cache, shift_cache, grid_log, grid_mode, call, ops>>
    /\ UNCHANGED driverVars

\* the base evaluation (lines 281-290) of the batch held in call by two
\* objects that differ in loss_fn only ("mse" and "msf"), with the same
\* in-plane angle drawn
EvalGridBase ==
    /\ call.op = "eval_grid"
    /\ call.stage = "base"
    /\ ret = None
    /\ ret' = [mse |-> BaseLoss("mse", cfg, call.images, call.ra),
               msf |-> BaseLoss("msf", cfg, call.images, call.ra)]
    /\ UNCHANGED <<cfg, so3_cache, shift_cache, grid_log, grid_mode, call, ops>>
    /\ UNCHANGED driverVars

\* the evaluation of one loop iteration (lines 311-322) by the same two
\* objects, on the children of a candidate set given as a warm start
EvalGridIter ==
    /\ call.op = "eval_grid"
    /\ call.stage = "iter"
    /\ ret = None
    /\ \E c \in {StartOf(Cur, cfg, GivenPoses(cfg, Len(call.images)), call.images, 1)} :
       \E sub \in {Subdivide("ok", Mem(EmptyMap, EmptyMap,
                                        [so3 |-> EmptyMap, shift |-> EmptyMap]),
                             [rows |-> c.quat, w |-> 4], [rows |-> c.q_ind, w |-> 2],
                             [rows |-> c.t_ind, w |-> 2], c.iter_)} :
          ret' = [mse |-> IterLoss("mse", cfg, call.images, RepeatEach(c.keepB, 4),
                                   sub.trans, sub.rot),
                  msf |-> IterLoss("msf", cfg, call.images, RepeatEach(c.keepB, 4),
                                   sub.trans, sub.rot)]
    /\ UNCHANGED <<cfg, so3_cache, shift_cache, grid_log, grid_mode, call, ops>>
    /\ UNCHANGED driverVars

\* get_neighbor_so3(quat, s2i, s1i, res) called on its own
GetNeighborSo3Call(q, s2i, s1i, res) ==
    /\ Idle
    /\ ops < MaxCalls
    /\ ops' = ops + 1
    /\ call' = [op |-> "get_neighbor_so3", key |-> <<s2i, s1i, res>>, quat |-> q]
    /\ \E m \in {GetNeighborSo3(grid_mode, Mem(so3_cache, shift_cache, grid_log),
                                q, s2i, s1i, res)} :
          /\ so3_cache' = m.so3
          /\ shift_cache' = m.shift
          /\ grid_log' = m.log
          /\ ret' = m.so3[<<s2i, s1i, res>>]
    /\ UNCHANGED <<cfg, grid_mode>>
    /\ UNCHANGED driverVars

\* get_neighbor_shift(x, y, res) called on its own
GetNeighborShiftCall(x, y, res) ==
    /\ Idle
    /\ ops < MaxCalls
    /\ ops' = ops + 1
    /\ call' = [op |-> "get_neighbor_shift", key |-> <<x, y, res>>, quat |-> None]
    /\ \E m \in {GetNeighborShift(grid_mode, Mem(so3_cache, shift_cache, grid_log),
                                  x, y, res)} :
          /\ so3_cache' = m.so3
          /\ shift_cache' = m.shift
          /\ grid_log' = m.log
          /\ ret' = m.shift[<<x, y, res>>]
    /\ UNCHANGED <<cfg, grid_mode>>
    /\ UNCHANGED driverVars

\* subdivide(quat, q_ind, t_ind, cur_res) called on its own
SubdivideCall(qa, qia, tia, cur_res) ==
    /\ Idle
    /\ ops < MaxCalls
    /\ ops' = ops + 1
    /\ call' = [op |-> "subdivide", quat |-> qa, q_ind |-> qia, t_ind |-> tia,
                cur_res |-> cur_res]
    /\ \E sub \in {Subdivide(grid_mode, Mem(so3_cache, shift_cache, grid_log),
                             qa, qia, tia, cur_res)} :
          /\ so3_cache' = sub.mem.so3
          /\ shift_cache' = sub.mem.shift
          /\ grid_log' = sub.mem.log
          /\ ret' = [status |-> sub.status, quat |-> sub.quat, q_ind |-> sub.q_ind,
                     t_ind |-> sub.t_ind, rot |-> sub.rot, trans |-> sub.trans]
    /\ UNCHANGED <<cfg, grid_mode>>
    /\ UNCHANGED driverVars

\* ------------------------------------------------------------ specification
Img1 == <<1, 0, 2, 1, 0>>
Img2 == <<0, 2, 1, 0, 1>>
Batches == {<<Img1, Img2>>}

Configs ==
    [loss_fn : {"mse", "msf", "cor", "l1"}, base_healpy : {1, 2},
     Lmin : {1, 2}, Lmax : {3}, nkeptposes : {2}, t_ngrid : {2}, seed : {0, 1}]

InitObject ==
    /\ so3_cache = EmptyMap
    /\ shift_cache = EmptyMap
    /\ grid_log = [so3 |-> EmptyMap, shift |-> EmptyMap]
    /\ ret = None
    /\ pc = "idle"
    /\ err = "none"
    /\ args = None
    /\ iter_ = 0
    /\ keepB = <<>> /\ keepT = <<>> /\ keepQ = <<>> /\ keepBN = <<>>
    /\ quat = <<>> /\ q_ind = <<>> /\ t_ind = <<>>
    /\ rot = UnboundSeq /\ trans = <<>>
    /\ loss = Unbound
    /\ rowImg = <<>>
    /\ Ls = <<>>
    /\ new_init_poses = None
    /\ first = None
    /\ result = None
    /\ lastRet = None
    /\ ops = 0

Init ==
    /\ InitObject
    /\ cfg \in Configs
    /\ grid_mode = "ok"
    /\ call = None

\* calls of opt_theta_trans on one object
DriverNext ==
    \/ \E nit \in 0..MaxNiter, warm \in {"none", "last", "given"}, imgs \in Batches,
          ra \in 1..S1Count(cfg.base_healpy) : Start(nit, warm, imgs, ra)
    \/ LoopStep
    \/ Finish

Next == DriverNext

Spec == Init /\ [][Next]_vars

\* ---- keep_matrix on its own
OneConfig ==
    [loss_fn |-> "mse", base_healpy |-> 1, Lmin |-> 1, Lmax |-> 3,
     nkeptposes |-> 2, t_ngrid |-> 2, seed |-> 1]

KVals == {Fin(0), Fin(1), NaN}

\* shapes of at most three axes and at most maxn elements
KShapes(maxn) ==
    {Arr(sh) : sh \in {f \in UNION {[1..r -> 1..maxn] : r \in 1..3} :
                         Prod(Arr(f)) <= maxn}}

\* the calls keep_matrix(loss, B, k) on tensors of one shape, with B equal
\* blocks and 1 <= k <= the number of candidates in a block
KeepCallsOf(sh, B) ==
    IF Prod(sh) % B # 0 THEN {}
    ELSE {[op |-> "keep_matrix", loss |-> [shape |-> sh, data |-> Arr(d)],
           B |-> B, max_poses |-> k] :
             d \in [1..Prod(sh) -> KVals], k \in 1..(Prod(sh) \div B)}

KeepCalls(maxn) ==
    UNION {KeepCallsOf(sh, B) : sh \in KShapes(maxn), B \in 1..maxn}

InitKeep ==
    /\ InitObject
    /\ cfg = OneConfig
    /\ grid_mode = "ok"
    /\ call \in KeepCalls(KMaxNumel)

NextKeep == KeepMatrixCall

SpecKeep == InitKeep /\ [][NextKeep]_vars

\* ---- subdivide on its own, with a collaborator that may break its interface
GridModes == {"ok", "q7", "q7w3", "i3", "ragged", "t3", "tw3"}

\* largest candidate set handed to subdivide alone
MaxCands == 2

\* candidates with valid index pairs at resolution res
Cands(res, side) ==
    {[q |-> Quat(res, s2, s1, 0), qi |-> <<s2, s1>>, ti |-> <<xy, xy>>] :
        s2 \in 0..(S2Count(res) - 1), s1 \in 0..(S1Count(res) - 1),
        xy \in {0, side - 1}}

\* well-shaped arguments of subdivide: N candidates, N in 0..MaxCands
SubArgsOK(res, side) ==
    {[quat  |-> [rows |-> Arr([i \in 1..Len(cs) |-> cs[i].q]), w |-> 4],
      q_ind |-> [rows |-> Arr([i \in 1..Len(cs) |-> cs[i].qi]), w |-> 2],
      t_ind |-> [rows |-> Arr([i \in 1..Len(cs) |-> cs[i].ti]), w |-> 2]] :
        cs \in UNION {[1..n -> Cands(res, side)] : n \in 0..MaxCands}}

\* arguments that break one of the input shapes
SubArgsBad(res, side) ==
    UNION {{[a EXCEPT !.quat.w = 3], [a EXCEPT !.q_ind.w = 3],
            [a EXCEPT !.t_ind.rows = Tail(@)]} :
              a \in {b \in SubArgsOK(res, side) : Len(b.quat.rows) = 1}}

InitSub ==
    /\ InitObject
    /\ cfg = OneConfig
    /\ grid_mode \in GridModes
    /\ call = None

NextSub ==
    \E a \in SubArgsOK(1, BaseSide(cfg)) \cup SubArgsBad(1, BaseSide(cfg)) :
        SubdivideCall(a.quat, a.q_ind, a.t_ind, 1)

SpecSub == InitSub /\ [][NextSub]_vars

\* ---- eval_grid under the mse and the msf formulation
Img3 == <<2, 2, 0, 1, 1>>
Img4 == <<1, 1, 1, 1, 1>>
LossImages == {Img1, Img2, Img3, Img4}
LossBatches == {<<a>> : a \in LossImages} \cup {<<a, b>> : a, b \in LossImages}

LossConfigs ==
    [loss_fn : {"mse"}, base_healpy : {1}, Lmin : {1}, Lmax : {3},
     nkeptposes : {2}, t_ngrid : {2}, seed : {0, 1, 2, 3}]

InitLoss ==
    /\ InitObject
    /\ cfg \in LossConfigs
    /\ grid_mode = "ok"
    /\ \E imgs \in LossBatches, ra \in 1..S1Count(cfg.base_healpy),
          st \in {"base", "iter"} :
          /\ st = "iter" => ra = 1
          /\ call = [op |-> "eval_grid", stage |-> st, images |-> imgs, ra |-> ra]

NextLoss ==
    \/ EvalGridBase
    \/ EvalGridIter

SpecLoss == InitLoss /\ [][NextLoss]_vars

\* ---- every operation that reads or writes the neighbor caches
CacheSo3Keys == {<<0, 0, 1>>, <<0, 1, 1>>, <<0, 0, 2>>, <<3, 1, 2>>}
CacheShiftKeys == {<<0, 0, 1>>, <<1, 1, 1>>, <<0, 0, 2>>}

InitCache ==
    /\ InitObject
    /\ cfg = OneConfig
    /\ grid_mode = "ok"
    /\ call = None

NextCache ==
    \/ \E k \in CacheSo3Keys, sgn \in {0, 1} :
          GetNeighborSo3Call(Quat(k[3], k[1], k[2], sgn), k[1], k[2], k[3])
    \/ \E k \in CacheShiftKeys : GetNeighborShiftCall(k[1], k[2], k[3])
    \/ \E a \in {b \in SubArgsOK(1, BaseSide(cfg)) : Len(b.quat.rows) = 1} :
          SubdivideCall(a.quat, a.q_ind, a.t_ind, 1)
    \/ \E nit \in 0..MaxNiter, warm \in {"none", "last", "given"}, imgs \in Batches,
          ra \in 1..S1Count(cfg.base_healpy) : Start(nit, warm, imgs, ra)
    \/ LoopStep
    \/ Finish

SpecCache == InitCache /\ [][NextCache]_vars

\* ------------------------------------------------------------------- claims
\* number of images of the running call, and candidates kept per image
NImages == Len(args.images)
NKept == cfg.nkeptposes

C2_BestOf(b) ==
    LET M == Numel(loss) \div NImages
    IN  \E n \in 0..(loss.shape[1] - 1), t \in 0..(loss.shape[2] - 1),
           q \in 0..(loss.shape[3] - 1) :
           LET f == FlatOf(<<n, t, q>>, loss.shape)
           IN  /\ f \div M = b
               /\ \A g \in (b * M)..(b * M + M - 1) :
                     LossLE(loss.data[f + 1], loss.data[g + 1])
               /\ result.rot[b + 1] =
                     IF args.niter = 0
                     THEN QuatToSO3(So3BaseQuat(q, cfg.base_healpy))
                     ELSE rot[8 * n + q + 1]
               /\ result.trans[b + 1] =
                     IF args.niter = 0 THEN BaseShift(cfg, t)
                     ELSE trans[4 * n + t + 1]

\* C2: with a supported loss_fn, opt_theta_trans never ends in an error,
\* whatever base_healpy, niter and init_poses are; when it has returned there
\* is one rotation and one translation per image, those of a lowest-loss
\* candidate of that image, from the base grid when niter = 0 and from the
\* children of the last subdivision otherwise.
C2_RunsToCompletion ==
    /\ (pc = "failed" /\ args # None) => cfg.loss_fn \notin LossFns
    /\ pc = "done" =>
          /\ Len(result.rot) = NImages
          /\ Len(result.trans) = NImages
          /\ \A b \in 0..(NImages - 1) : C2_BestOf(b)

\* entry [b, j] (0-based) of a B x nkeptposes x 2 warm-start value
C3_Pair(ip, b, j) ==
    <<ip.data[2 * (b * NKept + j) + 1], ip.data[2 * (b * NKept + j) + 2]>>

\* C3: the warm-start value is B x nkeptposes x 2; its entry [b, j] is the
\* (translation index, rotation index) of the j-th candidate kept for image b
\* by the first pruning step; no iteration changes it, so the value returned
\* is that one whatever niter is; and a call that is passed the value the
\* last call returned starts from the keepB, keepT, keepQ that call had after
\* its first pruning.
C3_WarmStart ==
    /\ pc \in {"loop", "done"} =>
          /\ new_init_poses.shape = <<NImages, NKept, 2>>
          /\ Len(new_init_poses.data) = 2 * NImages * NKept
          /\ \A b \in 0..(NImages - 1), j \in 0..(NKept - 1) :
                /\ C3_Pair(new_init_poses, b, j)
                      = <<first.keepT[b * NKept + j + 1], first.keepQ[b * NKept + j + 1]>>
                /\ first.keepB[b * NKept + j + 1] = b
          /\ args.warm = "last" => first = lastRet.first
          /\ (iter_ = cfg.base_healpy /\ pc = "loop") =>
                (keepB = first.keepB /\ keepT = first.keepT /\ keepQ = first.keepQ)
    /\ pc = "done" => result.new_init_poses = new_init_poses

\* a warm-started call has returned after two iterations that replaced the
\* candidates, and the first pruning kept different translations and
\* different rotations
C3_Witness ==
    /\ pc = "done"
    /\ args.warm = "last"
    /\ args.niter = 2
    /\ cfg.base_healpy = 1
    /\ keepT # first.keepT
    /\ \E i, j \in 1..Len(first.keepT) : first.keepT[i] # first.keepT[j]
    /\ \E i, j \in 1..Len(first.keepQ) : first.keepQ[i] # first.keepQ[j]
    /\ first.keepT # first.keepQ

\* the arguments of the last subdivide call are N candidates of the shapes
\* N x 4, N x 2, N x 2
C4_InputsOK == InputShapesOK(call.quat, call.q_ind, call.t_ind)

C4_N == Len(call.quat.rows)

\* the collaborator's answers for the candidates of the last subdivide call
\* have the shapes 8 x 4, 8 x 2 and 4 x 2, 4 x 2
C4_NeighborsOK ==
    \A i \in 1..C4_N :
        LET nb == So3GetNeighbor(grid_mode, call.quat.rows[i], call.q_ind.rows[i][1],
                                 call.q_ind.rows[i][2], call.cur_res)
            sb == ShiftGetNeighbor(grid_mode, call.t_ind.rows[i][1],
                                   call.t_ind.rows[i][2], call.cur_res - 1)
        IN  /\ Len(nb.quat) = 8 /\ nb.qw = 4 /\ Len(nb.ind) = 8 /\ nb.iw = 2
            /\ Len(sb.trans) = 4 /\ sb.tw = 2 /\ Len(sb.ind) = 4 /\ sb.iw = 2

\* the last subdivide call returned N x 8 rotation children and N x 4
\* translation children, row i holding the children of candidate i, with
\* valid indices at the next resolution
C4_FanOut ==
    /\ ret.status = "ok"
    /\ Len(ret.quat) = C4_N /\ Len(ret.q_ind) = C4_N /\ Len(ret.t_ind) = C4_N
    /\ Len(ret.rot) = C4_N * 8
    /\ Len(ret.trans) = C4_N * 4
    /\ \A i \in 1..C4_N :
          /\ Len(ret.quat[i]) = 8 /\ Len(ret.q_ind[i]) = 8 /\ Len(ret.t_ind[i]) = 4
          /\ \A j \in 1..8 :
                /\ ret.q_ind[i][j][1] \in 0..(S2Count(call.cur_res + 1) - 1)
                /\ ret.q_ind[i][j][2] \in 0..(S1Count(call.cur_res + 1) - 1)
                /\ ret.q_ind[i][j][1] \div 4 = call.q_ind.rows[i][1]
                /\ ret.q_ind[i][j][2] \div 2 = call.q_ind.rows[i][2]
                /\ ret.quat[i][j].s2 = ret.q_ind[i][j][1]
                /\ ret.quat[i][j].s1 = ret.q_ind[i][j][2]
                /\ ret.rot[8 * (i - 1) + j] = QuatToSO3(ret.quat[i][j])
          /\ \A j \in 1..4 :
                /\ ret.t_ind[i][j][1] \in 0..(cfg.t_ngrid * 2 ^ call.cur_res - 1)
                /\ ret.t_ind[i][j][2] \in 0..(cfg.t_ngrid * 2 ^ call.cur_res - 1)
                /\ ret.t_ind[i][j][1] \div 2 = call.t_ind.rows[i][1]
                /\ ret.t_ind[i][j][2] \div 2 = call.t_ind.rows[i][2]
                /\ Len(ret.trans[4 * (i - 1) + j]) = 2

\* the last subdivide call returned nothing
C4_Nothing ==
    /\ ret.quat = <<>> /\ ret.q_ind = <<>> /\ ret.t_ind = <<>>
    /\ ret.rot = <<>> /\ ret.trans = <<>>

C5_Level(i) ==
    IF args.warm = "none" THEN cfg.base_healpy - 2 + i ELSE cfg.base_healpy - 1 + i

\* C5: the i-th radius passed to eval_grid in a call is min(Lmin * 2^level,
\* Lmax) for the level of that evaluation; the radii of a call are
\* non-decreasing and none exceeds Lmax.
C5_Radii ==
    args # None =>
        /\ \A i \in 1..Len(Ls) :
              /\ Ls[i] <= cfg.Lmax
              /\ Ls[i] <= cfg.Lmin * 2 ^ C5_Level(i)
              /\ Ls[i] = cfg.Lmax \/ Ls[i] = cfg.Lmin * 2 ^ C5_Level(i)
        /\ \A i \in 1..(Len(Ls) - 1) : Ls[i] <= Ls[i + 1]

\* three evaluations whose radii grow and whose last radius is the cap
C5_Witness ==
    /\ args # None
    /\ Len(Ls) = 3
    /\ Ls[1] < Ls[2]
    /\ Ls[2] < Ls[3]
    /\ Ls[3] = cfg.Lmax
    /\ cfg.Lmin * 2 ^ C5_Level(3) > cfg.Lmax

\* C6: on an object whose loss_fn is not "mse", "msf" or "cor" no loss tensor
\* is ever produced and no opt_theta_trans call returns: a call that reaches
\* an eval_grid call ends there with NotImplementedError, and no pose and no
\* warm-start set is returned.
C6_UnknownLoss ==
    cfg.loss_fn \notin {"mse", "msf", "cor"} =>
        /\ loss = Unbound
        /\ pc # "done"
        /\ result = None
        /\ lastRet = None
        /\ (pc = "failed" /\ Ls # <<>>) => err = "NotImplementedError"
        /\ pc = "failed" => err \in {"NotImplementedError", "UnboundLocalError"}
        /\ (pc = "failed" /\ err = "UnboundLocalError") => Ls = <<>>

\* a warm-started call on such an object failed in the eval_grid call of its
\* first iteration
C6_Witness ==
    /\ cfg.loss_fn = "l1"
    /\ pc = "failed"
    /\ err = "NotImplementedError"
    /\ args.warm = "given"
    /\ Len(Ls) = 1
    /\ loss = Unbound

\* C7: two objects that differ only in loss_fn ("mse", "msf") and evaluate
\* the same images against the same predictions order the (translation,
\* orientation) candidates of every image in the same way, and keep_matrix
\* keeps the same candidates from either loss tensor.
C7_SameRanking ==
    (call # None /\ call.op = "eval_grid" /\ ret # None) =>
        LET B == Len(call.images)
            M == Numel(ret.mse) \div B
        IN  /\ ret.mse.shape = ret.msf.shape
            /\ \A b \in 0..(B - 1) : \A i, j \in (b * M + 1)..(b * M + M) :
                  LossLT(ret.mse.data[i], ret.mse.data[j])
                      <=> LossLT(ret.msf.data[i], ret.msf.data[j])
            /\ \A k \in {1, cfg.nkeptposes} :
                  KeepMatrix(ret.mse, B, k) = KeepMatrix(ret.msf, B, k)

\* an evaluation of the children of the candidates of two images of
\* different energy: each image has candidates of different loss, and two
\* candidates of different images are ordered one way by mse and the other
\* way by msf
C7_Witness ==
    /\ call # None /\ call.op = "eval_grid" /\ ret # None
    /\ call.stage = "iter"
    /\ Len(call.images) = 2
    /\ Dot(call.images[1], call.images[1]) # Dot(call.images[2], call.images[2])
    /\ LET M == Numel(ret.mse) \div 2
       IN  /\ \A b \in 0..1 : \E i, j \in (b * M + 1)..(b * M + M) :
                 LossLT(ret.mse.data[i], ret.mse.data[j])
           /\ \E i \in 1..M, j \in (M + 1)..(2 * M) :
                 /\ LossLT(ret.mse.data[i], ret.mse.data[j])
                 /\ LossLT(ret.msf.data[j], ret.msf.data[i])

\* C8: after every pruning step of a call (base pruning, warm-start setup,
\* each iteration) the candidate list has nkeptposes entries per image, the
\* entry at position j (0-based) belongs to image j div nkeptposes, and when
\* the entries were picked from a loss tensor that image is the one the
\* entry's loss row was scored against, i.e. the owner of the candidate
\* whose child the entry is.
C8_Ownership ==
    pc \in {"loop", "done"} =>
        /\ Len(keepB) = NImages * NKept
        /\ Len(keepT) = NImages * NKept
        /\ Len(keepQ) = NImages * NKept
        /\ \A j \in 0..(NImages * NKept - 1) :
              /\ keepB[j + 1] = j \div NKept
              /\ loss # Unbound =>
                    /\ keepBN[j + 1] \in 0..(loss.shape[1] - 1)
                    /\ keepB[j + 1] = (keepBN[j + 1] * NImages) \div loss.shape[1]
                    /\ keepB[j + 1] = rowImg[keepBN[j + 1] + 1]

\* after the second iteration of a call the rows picked are not the rows in
\* order, and a kept candidate of the second image comes from the row of
\* that image's second candidate
C8_Witness ==
    /\ pc = "loop"
    /\ loss # Unbound
    /\ Len(Ls) = 3
    /\ keepBN # keepB
    /\ \E j \in 1..Len(keepBN) : keepBN[j] = 3 /\ keepB[j] = 1
    /\ \E j \in 1..(Len(keepBN) - 1) : keepBN[j] > keepBN[j + 1]

\* every entry of a memo table is the collaborator's first answer for its
\* key, and the collaborator was asked once for it
C9_Table(table, log) ==
    /\ DOMAIN table = DOMAIN log
    /\ \A k \in DOMAIN table : log[k].count = 1 /\ table[k] = log[k].first

\* what holds of the caches in every state
C9_State ==
    /\ C9_Table(so3_cache, grid_log.so3)
    /\ C9_Table(shift_cache, grid_log.shift)
    /\ (call # None /\ call.op = "get_neighbor_so3") =>
          (ret = grid_log.so3[call.key].first /\ ret = so3_cache[call.key])
    /\ (call # None /\ call.op = "get_neighbor_shift") =>
          (ret = grid_log.shift[call.key].first /\ ret = shift_cache[call.key])

\* what holds of the caches over every step
C9_Step ==
    /\ \A k \in DOMAIN so3_cache :
          k \in DOMAIN so3_cache' /\ so3_cache'[k] = so3_cache[k]
    /\ \A k \in DOMAIN shift_cache :
          k \in DOMAIN shift_cache' /\ shift_cache'[k] = shift_cache[k]
    /\ (ops' = ops + 1 /\ call'.op = "get_neighbor_so3") => shift_cache' = shift_cache
    /\ (ops' = ops + 1 /\ call'.op = "get_neighbor_shift") => so3_cache' = so3_cache

\* C9: over any sequence of get_neighbor_so3, get_neighbor_shift, subdivide
\* and opt_theta_trans calls on one object, a neighbor call returns the value
\* the collaborator gave the first time its key was requested, the
\* collaborator is asked at most once per key, a stored entry is never
\* changed or removed, and a call on one table leaves the other unchanged.
C9_Caches == []C9_State /\ [][C9_Step]_vars

\* a second get_neighbor_so3 call on a key, with the opposite quaternion,
\* returned the children computed from the first call's quaternion
C9_Witness ==
    /\ call # None
    /\ call.op = "get_neighbor_so3"
    /\ ops = 2
    /\ call.quat.sgn = 1
    /\ ret.quat[1].sgn = 0
    /\ grid_log.so3[call.key].count = 1

\* C10: no loss value handed to keep_matrix is the result of a division by a
\* zero standard deviation (every loss value is finite).
C10_NoNonFinite ==
    loss # Unbound => \A f \in 1..Len(loss.data) : IsFinite(loss.data[f])

====
